---- MODULE Spec2Model ----
(***************************************************************************)
(* Model of iAddressBook2RDF: the phone number normalisation of            *)
(* PhoneNumberUtils.py and of iAddressBook2RDF.py, and the multi-value     *)
(* reconstruction and N-Triples output of iAddressBook2RDF.py.             *)
(*                                                                         *)
(* Text is modelled as a sequence of one-character strings.  Python's None *)
(* result of normalize_phone_number is the record None; a text result s is *)
(* Text(s).                                                                *)
(***************************************************************************)
EXTENDS Integers, Sequences, FiniteSets, TLC

VARIABLES
    \* a direct call of normalize_phone_number
    phoneNo,            \* argument of the call
    countryCallingCode, \* its country calling code ("": None or "")
    validateDigitsOnly, \* its validateDigitsOnly flag (PhoneNumberUtils only)
    impl,               \* "none", "utils" (PhoneNumberUtils.py), "converter"
    result,             \* what the call returned
    \* a run of ABPersonToRDF.process_ab_records
    ABPerson,           \* the rows of table ABPerson, in scan order
    ABMultiValue,       \* person id -> the person's multi-values, by UID
    rand_tag,           \* self.rand_tag
    pc,                 \* "scan", "rows", "done", "failed"
    error,              \* the exception that ended the run, or "none"
    pidx,               \* index in ABPerson of the row the scan is at
    ridx,               \* index of the next row of the multi-value query
    person,             \* the ABPerson object: id, values, multivalues
    last_mv_uid,        \* {}: None, {uid} otherwise
    current_prop_relation, \* "": None
    current_prop_func,  \* name of the handler, "": None
    curPropDict,        \* {}: None, {key}: the dict stored under key
    out                 \* the triples written to self.out, in order

phoneVars == <<phoneNo, countryCallingCode, validateDigitsOnly, impl, result>>

dbVars == <<ABPerson, ABMultiValue, rand_tag>>

loopVars == <<last_mv_uid, current_prop_relation, current_prop_func, curPropDict>>

runVars == <<pc, error, pidx, ridx, person, loopVars, out>>

vars == <<phoneVars, dbVars, runVars>>

-----------------------------------------------------------------------------
(* Text helpers.  Text is a TLA+ string; SubSeq, Len and \o work on it. *)

\* Python's None as a result, next to a text result
None == [none |-> TRUE, str |-> ""]
Text(s) == [none |-> FALSE, str |-> s]
\* '%s' % x
Format(r) == IF r.none THEN "None" ELSE r.str

CharAt(s, i) == SubSeq(s, i, i)
StartsWith(s, p) == Len(s) >= Len(p) /\ SubSeq(s, 1, Len(p)) = p
EndsWith(s, p) == Len(s) >= Len(p) /\ SubSeq(s, Len(s) - Len(p) + 1, Len(s)) = p
Drop(s, n) == SubSeq(s, n + 1, Len(s))
Contains(s, c) == \E i \in 1..Len(s) : CharAt(s, i) = c

RECURSIVE Join(_)
Join(q) == IF Len(q) = 0 THEN "" ELSE Head(q) \o Join(Tail(q))

\* translate({ord(c): None for c in chars})
Without(s, chars) ==
    Join([i \in 1..Len(s) |-> IF CharAt(s, i) \in chars THEN "" ELSE CharAt(s, i)])

Digits == {"0", "1", "2", "3", "4", "5", "6", "7", "8", "9"}

\* str.isdigit(): non-empty and every character a digit
IsDigit(s) == Len(s) > 0 /\ \A i \in 1..Len(s) : CharAt(s, i) \in Digits

\* str.lower() on the letters the inputs use
LowerChar(c) ==
    CASE c = "T" -> "t"
      [] c = "E" -> "e"
      [] c = "L" -> "l"
      [] c = "A" -> "a"
      [] c = "C" -> "c"
      [] OTHER -> c

Lower(s) == Join([i \in 1..Len(s) |-> LowerChar(CharAt(s, i))])

\* the ASCII characters removed by translate(): < > ( ) - space tab newline
\* (U+2011, U+00A0, U+202A and U+202C, removed too, are not in the inputs)
FormattingChars == {"<", ">", "(", ")", "-", " ", "\t", "\n"}

-----------------------------------------------------------------------------
(* PhoneNumberUtils.py *)

PNU_get_local_trunk_prefix_for_country_code(code) ==
    IF code = "" THEN ""
    ELSE IF CharAt(code, 1) = "1" THEN "1"
    ELSE IF CharAt(code, 1) = "7" THEN "8"
    ELSE IF code = "36" THEN "06"
    ELSE IF code \in { "420", "45", "372",
                       "30", "39", "371",
                       "352", "356", "377",
                       "977", "47", "968",
                       "48", "351", "378",
                       "34", "3906698" }
         THEN ""
    ELSE "0"

\* lines 49-53: lower(), translate(), strip a leading "tel:"
PNU_clean(raw) ==
    LET s == Without(Lower(raw), FormattingChars)
    IN IF StartsWith(s, "tel:") THEN Drop(s, 4) ELSE s

\* line 56
PNU_isSpecial(s) == Len(s) < 5 \/ Contains(s, "*") \/ Contains(s, "#")

PNU_calling_prefixes ==
    << "0011", "000", "001",
       "010", "011", "00", "+" >>

\* PNU_strip_calling_prefix without the '+' entry of the list
PNU_strip_calling_prefix_no_plus(s) ==
    LET hits == {i \in 1..(Len(PNU_calling_prefixes) - 1) :
                    StartsWith(s, PNU_calling_prefixes[i])}
    IN IF hits = {} THEN [phoneNo |-> s, isInternational |-> FALSE]
       ELSE LET i == CHOOSE k \in hits : \A j \in hits : k <= j
            IN [phoneNo |-> Drop(s, Len(PNU_calling_prefixes[i])),
                isInternational |-> TRUE]

\* lines 65-69: the loop leaves at the first prefix that matches (break)
PNU_strip_calling_prefix(s) ==
    LET hits == {i \in 1..Len(PNU_calling_prefixes) :
                    StartsWith(s, PNU_calling_prefixes[i])}
    IN IF hits = {} THEN [phoneNo |-> s, isInternational |-> FALSE]
       ELSE LET i == CHOOSE k \in hits : \A j \in hits : k <= j
            IN [phoneNo |-> Drop(s, Len(PNU_calling_prefixes[i])),
                isInternational |-> TRUE]

\* lines 71-78: the length heuristic, then the country calling code
PNU_localize(st, isSpecial, code) ==
    LET intl == st.isInternational \/ Len(st.phoneNo) >= 11
        trunk == PNU_get_local_trunk_prefix_for_country_code(code)
    IN IF ~intl /\ ~isSpecial /\ code # "" /\ StartsWith(st.phoneNo, trunk)
       THEN [phoneNo |-> code \o Drop(st.phoneNo, Len(trunk)),
             isInternational |-> TRUE]
       ELSE [phoneNo |-> st.phoneNo, isInternational |-> intl]

\* lines 80-83
PNU_finish(st, isSpecial) ==
    IF st.isInternational /\ ~isSpecial THEN "+" \o st.phoneNo ELSE st.phoneNo

PNU_normalize_phone_number(raw, code, validate) ==
    LET s == PNU_clean(raw)
        isSpecial == PNU_isSpecial(s)
    IN IF validate /\ ~IsDigit(Without(s, {"+", "*", "#"}))
       THEN None
       ELSE Text(PNU_finish(PNU_localize(PNU_strip_calling_prefix(s),
                                         isSpecial, code), isSpecial))

-----------------------------------------------------------------------------
(* iAddressBook2RDF.py: the converter's own copy *)

get_local_trunk_prefix_for_country_code(code) ==
    IF code = "" THEN ""
    ELSE IF CharAt(code, 1) = "1" THEN "1"
    ELSE IF CharAt(code, 1) = "7" THEN "8"
    ELSE IF code = "36" THEN "06"
    ELSE IF code \in { "420", "45", "372",
                       "30", "39", "371",
                       "352", "356", "377",
                       "977", "47", "968",
                       "48", "351", "378",
                       "34", "3906698" }
         THEN ""
    ELSE "0"

\* lines 91-94
clean(raw) ==
    LET s == Without(Lower(raw), FormattingChars)
    IN IF StartsWith(s, "tel:") THEN Drop(s, 4) ELSE s

\* line 96
isSpecial_(s) == Len(s) < 5 \/ Contains(s, "*") \/ Contains(s, "#")

calling_prefixes ==
    << "0011", "000", "001",
       "010", "011", "00", "+" >>

\* lines 104-107: the loop has no break; every listed prefix is tried in turn
\* on what the earlier ones left
RECURSIVE strip_from(_, _)
strip_from(st, i) ==
    IF i > Len(calling_prefixes) THEN st
    ELSE IF StartsWith(st.phoneNo, calling_prefixes[i])
         THEN strip_from([phoneNo |-> Drop(st.phoneNo, Len(calling_prefixes[i])),
                          isInternational |-> TRUE], i + 1)
         ELSE strip_from(st, i + 1)

strip_calling_prefixes(s) ==
    strip_from([phoneNo |-> s, isInternational |-> FALSE], 1)

\* lines 109-116
localize(st, isSpecial, code) ==
    LET intl == st.isInternational \/ Len(st.phoneNo) >= 11
        trunk == get_local_trunk_prefix_for_country_code(code)
    IN IF ~intl /\ ~isSpecial /\ code # "" /\ StartsWith(st.phoneNo, trunk)
       THEN [phoneNo |-> code \o Drop(st.phoneNo, Len(trunk)),
             isInternational |-> TRUE]
       ELSE [phoneNo |-> st.phoneNo, isInternational |-> intl]

\* finish without the test of isSpecial
finish_ignoring_special(st, isSpecial) ==
    IF st.isInternational THEN "+" \o st.phoneNo ELSE st.phoneNo

\* lines 118-121
finish(st, isSpecial) ==
    IF st.isInternational /\ ~isSpecial THEN "+" \o st.phoneNo ELSE st.phoneNo

normalize_phone_number(raw, code) ==
    LET s == clean(raw)
        isSpecial == isSpecial_(s)
    IN IF ~IsDigit(Without(s, {"+", "*", "#"}))
       THEN None
       ELSE Text(finish(localize(strip_calling_prefixes(s), isSpecial, code),
                        isSpecial))

-----------------------------------------------------------------------------
(* iAddressBook2RDF.py: values, dicts, formatting *)

\* A database value is NULL or Some(v); Python sees None or v.
NULL == <<>>
Some(v) == <<v>>
\* truth value of a text column: None and '' are false
Truthy(x) == x # NULL /\ x[1] # ""
\* truth value of an integer column: None and 0 are false
TruthyInt(x) == x # NULL /\ x[1] # 0

\* A dict is the sequence of its <<key, value>> items in insertion order.
Keys(d) == {d[i][1] : i \in 1..Len(d)}
Get(d, k) == d[CHOOSE i \in 1..Len(d) : d[i][1] = k][2]
Put(d, k, v) ==
    IF k \in Keys(d)
    THEN [i \in 1..Len(d) |-> IF d[i][1] = k THEN <<k, v>> ELSE d[i]]
    ELSE Append(d, <<k, v>>)

qnames_prefix_map ==
    [rdf |-> "http://www.w3.org/1999/02/22-rdf-syntax-ns#",
     rdfs |-> "http://www.w3.org/2000/01/rdf-schema#",
     abp |-> "http://www.apple.com/ABPerson#",
     vcard |-> "http://www.w3.org/2006/vcard/ns#",
     gn |-> "http://www.geonames.org/ontology#"]

\* rel.partition(':'): <<head, sep, tail>>
Partition(rel) ==
    LET hits == {i \in 1..Len(rel) : CharAt(rel, i) = ":"}
    IN IF hits = {} THEN <<rel, "", "">>
       ELSE LET i == CHOOSE k \in hits : \A j \in hits : k <= j
            IN <<SubSeq(rel, 1, i - 1), ":", Drop(rel, i)>>

qname_to_uri(rel) ==
    LET p == Partition(rel)
    IN IF p[2] = ":" /\ p[1] \in DOMAIN qnames_prefix_map
       THEN "<" \o qnames_prefix_map[p[1]] \o p[3] \o ">"
       ELSE LET r1 == IF StartsWith(rel, "<") THEN rel ELSE "<" \o rel
            IN IF EndsWith(r1, ">") THEN r1 ELSE r1 \o ">"

\* the three replace() calls of format_literal, one character at a time
EscapeChar(c) ==
    CASE c = "\\" -> "\\\\"
      [] c = "\"" -> "\\\""
      [] c = "\n" -> "\\n"
      [] OTHER -> c

format_literal(s) ==
    "\"" \o Join([i \in 1..Len(s) |-> EscapeChar(CharAt(s, i))]) \o "\""

format_uri(s) == "<" \o s \o ">"

ab_object_kind_map == (0 :> "vcard:Individual") @@ (1 :> "vcard:Organization")

get_object_kind_qname(nkey) ==
    IF nkey \in DOMAIN ab_object_kind_map THEN ab_object_kind_map[nkey]
    ELSE "vcard:Kind"

\* ab_person_column_map on the columns of the modelled table; "": None
ab_person_column_map ==
    [ROWID |-> "",
     First |-> "vcard:given-name",
     Organization |-> "vcard:organization-name",
     Kind |-> "abp:Kind"]

-----------------------------------------------------------------------------
(* iAddressBook2RDF.py: the handlers of the property types *)

_to_telephone_uri(val) ==
    "<tel:" \o Format(normalize_phone_number(val, "")) \o ">"

_process_has_telephone(objPropDict, val, mve_relation) ==
    [ok |-> TRUE, dict |-> Put(objPropDict, "vcard:hasValue", _to_telephone_uri(val))]

_process_has_email(objPropDict, val, mve_relation) ==
    [ok |-> TRUE, dict |-> Put(objPropDict, "vcard:hasValue", "<mailto:" \o val \o ">")]

_process_url(objPropDict, val, mve_relation) ==
    [ok |-> TRUE, dict |-> Put(objPropDict, "vcard:hasValue", format_uri(val))]

_process_literal(objPropDict, val, mve_relation) ==
    [ok |-> TRUE, dict |-> Put(objPropDict, "vcard:hasValue", format_literal(val))]

\* _process_multi_value_entry adding an item on every call
_process_multi_value_entry_appending(objPropDict, val, mve_relation) ==
    IF mve_relation = "" THEN [ok |-> FALSE, dict |-> objPropDict]
    ELSE [ok |-> TRUE, dict |-> Append(objPropDict, <<mve_relation, format_literal(val)>>)]

\* assert(mve_relation) fails on None ("")
_process_multi_value_entry(objPropDict, val, mve_relation) ==
    IF mve_relation = "" THEN [ok |-> FALSE, dict |-> objPropDict]
    ELSE IF mve_relation = "vcard:url"
         THEN [ok |-> TRUE, dict |-> Put(objPropDict, mve_relation, format_uri(val))]
         ELSE [ok |-> TRUE, dict |-> Put(objPropDict, mve_relation, format_literal(val))]

\* current_prop_func(curPropDict, val, mve_relation).  Dates (property type
\* 12, _process_literal_date) are not among the inputs.
CallPropFunc(func, objPropDict, val, mve_relation) ==
    CASE func = "_process_has_telephone" ->
            _process_has_telephone(objPropDict, val, mve_relation)
      [] func = "_process_has_email" ->
            _process_has_email(objPropDict, val, mve_relation)
      [] func = "_process_url" ->
            _process_url(objPropDict, val, mve_relation)
      [] func = "_process_literal" ->
            _process_literal(objPropDict, val, mve_relation)
      [] func = "_process_multi_value_entry" ->
            _process_multi_value_entry(objPropDict, val, mve_relation)

prop_type_map ==
    (3 :> <<"vcard:hasTelephone", "_process_has_telephone">>) @@
    (4 :> <<"vcard:hasEmail", "_process_has_email">>) @@
    (5 :> <<"vcard:hasAddress", "_process_multi_value_entry">>) @@
    (16 :> <<"vcard:sound", "_process_literal">>) @@
    (22 :> <<"vcard:url", "_process_url">>) @@
    (23 :> <<"abp:relatedName", "_process_literal">>) @@
    (12 :> <<"abp:relatedDate", "_process_literal_date">>) @@
    (46 :> <<"abp:socialProfile", "_process_multi_value_entry">>) @@
    (13 :> <<"vcard:hasInstantMessage", "_process_multi_value_entry">>)

\* What the function returns: the table's pair, or on KeyError a str.
_get_mv_property_type_qname(mv_property) ==
    IF mv_property \in DOMAIN prop_type_map
    THEN [pair |-> TRUE, items |-> prop_type_map[mv_property]]
    ELSE [pair |-> FALSE, items |-> "abp:x-prop_" \o ToString(mv_property)]

\* "a, b = value" (line 467): a pair unpacks into its two items, a str into
\* its characters, and anything that is not two items long raises ValueError.
Unpack2(value) ==
    IF Len(value.items) # 2 THEN [ok |-> FALSE, a |-> "", b |-> ""]
    ELSE IF value.pair
         THEN [ok |-> TRUE, a |-> value.items[1], b |-> value.items[2]]
         ELSE [ok |-> TRUE, a |-> CharAt(value.items, 1), b |-> CharAt(value.items, 2)]

\* translate_category_label leaving the wrapper in place
translate_category_label_verbatim(categ_label) ==
    IF ~Truthy(categ_label) THEN "" ELSE "\"" \o categ_label[1] \o "\""

translate_category_label(categ_label) ==
    IF ~Truthy(categ_label) THEN ""
    ELSE LET l == categ_label[1]
             decoded == IF Len(l) > 8 /\ StartsWith(l, "_$!<")
                        THEN SubSeq(l, 5, Len(l) - 4) ELSE l
         IN "\"" \o decoded \o "\""

-----------------------------------------------------------------------------
(* iAddressBook2RDF.py: ABPerson and ABPersonToRDF *)

\* table ABMultiValueEntryKey: ROWID -> value
ABMultiValueEntryKey ==
    (1 :> "Street") @@ (2 :> "City") @@ (3 :> "url") @@ (4 :> "Region")

remap ==
    [Street |-> "vcard:street-address",
     Country |-> "vcard:country-name",
     ZIP |-> "vcard:postal-code",
     City |-> "vcard:locality",
     State |-> "vcard:region",
     CountryCode |-> "gn:countryCode",
     username |-> "abp:username",
     service |-> "abp:service",
     url |-> "vcard:url"]

\* self.ab_multi_value_entry_map, built by __init__
_build_multi_value_entry_map ==
    [k \in DOMAIN ABMultiValueEntryKey |->
        IF ABMultiValueEntryKey[k] \in DOMAIN remap
        THEN remap[ABMultiValueEntryKey[k]]
        ELSE "abp:" \o ABMultiValueEntryKey[k]]

\* "": None
_get_multi_value_entry_qname(nkey) ==
    IF nkey \in DOMAIN _build_multi_value_entry_map
    THEN _build_multi_value_entry_map[nkey] ELSE ""

\* The rows of the query of _process_person_multi_values for one person: the
\* multi-values by UID (ORDER BY 1), each LEFT JOINed with its entries.
RowsOf(mv) ==
    IF mv.entries = <<>>
    THEN << [mvid |-> mv.UID, mvtype |-> mv.property, mval |-> mv.value,
             mvlabel2 |-> mv.label, mv_subval |-> NULL, mve_key |-> NULL] >>
    ELSE [i \in 1..Len(mv.entries) |->
            [mvid |-> mv.UID, mvtype |-> mv.property, mval |-> mv.value,
             mvlabel2 |-> mv.label, mv_subval |-> mv.entries[i].value,
             mve_key |-> mv.entries[i].key]]

RECURSIVE JoinRows(_)
JoinRows(mvs) ==
    IF mvs = <<>> THEN <<>> ELSE RowsOf(Head(mvs)) \o JoinRows(Tail(mvs))

\* ABPerson.__init__
NewPerson(person_id) == [id |-> person_id, values |-> <<>>, multivalues |-> <<>>]
NoPerson == [id |-> -1, values |-> <<>>, multivalues |-> <<>>]

col_names == <<"ROWID", "First", "Organization", "Kind">>

\* _process_ab_person_column, on the columns of the modelled table (no date,
\* StoreID, PersonLink or ImageURI column); returns person.values
_process_ab_person_column(col_name, col_val, values) ==
    IF col_val = NULL THEN values
    ELSE IF col_name \notin DOMAIN ab_person_column_map THEN values
    ELSE LET relation == ab_person_column_map[col_name]
         IN IF relation = "" THEN values
            ELSE IF relation = "abp:Kind"
                 THEN Put(values, "rdf:type", get_object_kind_qname(col_val[1]))
                 ELSE Put(values, relation, format_literal(col_val[1]))

RECURSIVE ProcessColumns(_, _, _)
ProcessColumns(row, i, values) ==
    IF i > Len(col_names) THEN values
    ELSE ProcessColumns(row, i + 1,
            _process_ab_person_column(col_names[i], row[col_names[i]], values))

\* str.strip(chars)
RECURSIVE Strip(_, _)
Strip(s, chars) ==
    IF Len(s) > 0 /\ CharAt(s, 1) \in chars THEN Strip(Drop(s, 1), chars)
    ELSE IF Len(s) > 0 /\ CharAt(s, Len(s)) \in chars
         THEN Strip(SubSeq(s, 1, Len(s) - 1), chars)
         ELSE s

\* ABPerson.generate_formatted_name; returns self.values
generate_formatted_name(values) ==
    LET part(k) == IF k \in Keys(values) THEN Strip(Get(values, k), {"\""}) ELSE ""
        sp(t) == IF t # "" THEN t \o " " ELSE t
        fn1 == sp(part("vcard:given-name"))
        fn2 == sp(fn1 \o part("vcard:additional-name"))
        fn3 == fn2 \o part("vcard:family-name")
        fn4 == IF fn3 = "" THEN part("vcard:organization-name") ELSE fn3
        fn == Strip(fn4, {" ", "\t", "\n"})
    IN IF fn # "" THEN Put(values, "vcard:fn", format_literal(fn)) ELSE values

\* output_triple: the line written is subj, pred, obj and " ." with spaces
output_triple(subj, pred, obj) ==
    LET o == IF StartsWith(obj, "<") /\ EndsWith(obj, ">") THEN obj
             ELSE IF StartsWith(obj, "\"") /\ EndsWith(obj, "\"") THEN obj
             ELSE IF StartsWith(obj, "_:") THEN obj
             ELSE qname_to_uri(obj)
    IN <<subj, qname_to_uri(pred), o>>

person_bnode_of(bnode_tag, id) == "_:" \o bnode_tag \o "p" \o ToString(id)

\* mvbnode_of with no separator between the two ids
mvbnode_of_unseparated(person_bnode, mvid) == person_bnode \o ToString(mvid)
mvbnode_of(person_bnode, mvid) == person_bnode \o "m" \o ToString(mvid)

\* the triples of one item of self.multivalues (lines 316-323)
GroupTriples(person_bnode, item) ==
    LET mvid == item[1][1]
        mvrel == item[1][2]
        mvprops == item[2]
        mvbnode == mvbnode_of(person_bnode, mvid)
    IN IF mvprops = <<>> THEN <<>>
       ELSE <<output_triple(person_bnode, mvrel, mvbnode)>> \o
            [i \in 1..Len(mvprops) |->
                output_triple(mvbnode, mvprops[i][1], mvprops[i][2])]

RECURSIVE AllGroupTriples(_, _)
AllGroupTriples(person_bnode, items) ==
    IF items = <<>> THEN <<>>
    ELSE GroupTriples(person_bnode, Head(items)) \o
         AllGroupTriples(person_bnode, Tail(items))

\* ABPerson.output_ntriples: the triples it writes, in order
output_ntriples(p, bnode_tag) ==
    LET person_bnode == person_bnode_of(bnode_tag, p.id)
    IN [i \in 1..Len(p.values) |->
            output_triple(person_bnode, p.values[i][1], p.values[i][2])] \o
       AllGroupTriples(person_bnode, p.multivalues)

-----------------------------------------------------------------------------
(* iAddressBook2RDF.py: one row of _process_person_multi_values *)

\* IsNewValue true of the first row only
IsNewValue_first_row_only(uid, last) == last = {}

\* line 462
IsNewValue(uid, last) == last # {uid}

\* lines 472-478: a new dict is stored under (uid, relation) and gets the
\* category of the row's label, if it has one
StartGroup(multivalues, uid, relation, label) ==
    LET vcard_categ == translate_category_label(label)
    IN Put(multivalues, <<uid, relation>>,
           IF vcard_categ # "" THEN << <<"vcard:category", vcard_categ>> >>
           ELSE <<>>)

\* line 485: assert(mval or mv_subval)
ValuePresent(row) == Truthy(row.mval) \/ Truthy(row.mv_subval)

\* line 494: mval or mv_subval
EffectiveValue(row) == IF Truthy(row.mval) THEN row.mval[1] ELSE row.mv_subval[1]

LoopState(last, relation, func, cur) ==
    [last_mv_uid |-> last, current_prop_relation |-> relation,
     current_prop_func |-> func, curPropDict |-> cur]

StepResult(status, p, l) == [status |-> status, person |-> p, loop |-> l]

\* lines 487-496: the sub-entry relation, the handler, last_mv_uid
ApplyRow(p, l, row) ==
    IF Truthy(row.mv_subval) /\ ~TruthyInt(row.mve_key)
    THEN StepResult("AssertionError", p, l)
    ELSE LET mve_relation == IF Truthy(row.mv_subval)
                             THEN _get_multi_value_entry_qname(row.mve_key[1])
                             ELSE ""
             key == CHOOSE k \in l.curPropDict : TRUE
             r == CallPropFunc(l.current_prop_func, Get(p.multivalues, key),
                               EffectiveValue(row), mve_relation)
         IN IF ~r.ok THEN StepResult("AssertionError", p, l)
            ELSE StepResult("ok",
                    [p EXCEPT !.multivalues = Put(p.multivalues, key, r.dict)],
                    [l EXCEPT !.last_mv_uid = {row.mvid}])

\* RowValue passing over a row with no value instead of failing
RowValue_skipping(p, l, row) ==
    IF ~ValuePresent(row) THEN StepResult("ok", p, l)
    ELSE ApplyRow(p, l, row)

\* lines 483-496, for a row whose group has a relation
RowValue(p, l, row) ==
    IF ~ValuePresent(row) THEN StepResult("AssertionError", p, l)
    ELSE ApplyRow(p, l, row)

\* lines 461-496: the body of the loop for one row
RowStep(p, l, row) ==
    IF IsNewValue(row.mvid, l.last_mv_uid)
    THEN LET u == Unpack2(_get_mv_property_type_qname(row.mvtype))
         IN IF ~u.ok THEN StepResult("ValueError", p, l)
            ELSE IF u.a = ""
                 THEN StepResult("ok", p, LoopState(l.last_mv_uid, u.a, u.b, {}))
                 ELSE RowValue(
                        [p EXCEPT !.multivalues =
                            StartGroup(p.multivalues, row.mvid, u.a, row.mvlabel2)],
                        LoopState(l.last_mv_uid, u.a, u.b, {<<row.mvid, u.a>>}),
                        row)
    ELSE IF l.current_prop_relation = "" THEN StepResult("ok", p, l)
         ELSE RowValue(p, l, row)

-----------------------------------------------------------------------------
(* The databases of the runs *)

MaxGroups == 2

RandTags == {"1a2b3c4d", "f"}

PersonRows ==
    { [ROWID |-> Some(7), First |-> Some("Ann"), Organization |-> NULL,
       Kind |-> Some(0)],
      [ROWID |-> Some(12), First |-> NULL, Organization |-> Some("ACME"),
       Kind |-> Some(1)] }

Labels ==
    { NULL, Some("_$!<Mobile>!$_"), Some("_$!<WorkFAX>!$_"), Some("_$!<Home>!$_"),
      Some("_$!<Pager>!$_"), Some("iPhone"), Some("_$!<>!$_"), Some("_$!<Other") }

MV(property, value, label, entries) ==
    [property |-> property, value |-> value, label |-> label, entries |-> entries]
Entry(value, key) == [value |-> value, key |-> key]

Street == Entry(Some("1 Main St"), Some(1))
Street2 == Entry(Some("2 Side St"), Some(1))
City == Entry(Some("Paris"), Some(2))

MVCatalogue ==
    \* phone numbers, with every label
    {MV(3, Some("555-1234"), l, <<>>) : l \in Labels} \cup
    { \* a phone number the digit check rejects
      MV(3, Some("555-CALL"), NULL, <<>>),
      \* an e-mail address and a web page
      MV(4, Some("ann@example.org"), Some("_$!<Work>!$_"), <<>>),
      MV(22, Some("http://example.org/"), NULL, <<>>),
      \* a property type the table does not have
      MV(99, Some("x"), NULL, <<>>),
      \* rows with no value at all
      MV(3, NULL, NULL, <<>>),
      MV(3, NULL, Some("_$!<Mobile>!$_"), <<>>),
      MV(5, NULL, NULL, <<>>),
      \* addresses
      MV(5, NULL, Some("_$!<Home>!$_"), <<Street, City>>),
      MV(5, NULL, NULL, <<Street>>),
      MV(5, NULL, NULL, <<Street, Street2>>),
      MV(5, NULL, NULL, <<City, Entry(NULL, Some(1))>>),
      MV(5, NULL, NULL, <<Street, Entry(Some("x"), Some(9))>>),
      \* a social profile
      MV(46, NULL, NULL, <<Entry(Some("http://example.org/ann"), Some(3)),
                           Entry(Some("Europe"), Some(4))>>) }

\* the multi-values of a person have the UIDs 1, 2, ... in this order
WithUIDs(q) ==
    [i \in 1..Len(q) |->
        [UID |-> i, property |-> q[i].property, value |-> q[i].value,
         label |-> q[i].label, entries |-> q[i].entries]]

MVLists == {WithUIDs(q) : q \in UNION {[1..n -> MVCatalogue] : n \in 0..MaxGroups}}

-----------------------------------------------------------------------------
(* A run of process_ab_records *)

Rows == JoinRows(ABMultiValue[person.id])

PhoneIdle ==
    /\ phoneNo = ""
    /\ countryCallingCode = ""
    /\ validateDigitsOnly = FALSE
    /\ impl = "none"
    /\ result = None

RunStart ==
    /\ pc = "scan"
    /\ error = "none"
    /\ pidx = 1
    /\ ridx = 1
    /\ person = NoPerson
    /\ last_mv_uid = {}
    /\ current_prop_relation = ""
    /\ current_prop_func = ""
    /\ curPropDict = {}
    /\ out = <<>>

Init ==
    /\ PhoneIdle
    /\ rand_tag \in RandTags
    /\ \E p \in PersonRows :
        /\ ABPerson = <<p>>
        /\ ABMultiValue \in [{p.ROWID[1]} -> MVLists]
    /\ RunStart

\* lines 343-350 and 452-458: the next row of ABPerson, its columns, and the
\* start of _process_person_multi_values
NextPerson ==
    /\ pc = "scan"
    /\ pidx <= Len(ABPerson)
    /\ LET row == ABPerson[pidx]
       IN person' = [NewPerson(row.ROWID[1]) EXCEPT
                        !.values = ProcessColumns(row, 1, <<>>)]
    /\ last_mv_uid' = {}
    /\ current_prop_relation' = ""
    /\ current_prop_func' = ""
    /\ curPropDict' = {}
    /\ ridx' = 1
    /\ pc' = "rows"
    /\ UNCHANGED <<phoneVars, dbVars, error, pidx, out>>

\* ProcessRow writing what the person holds when the row raises
ProcessRow_writing_on_failure ==
    /\ pc = "rows"
    /\ ridx <= Len(Rows)
    /\ LET r == RowStep(person,
                        LoopState(last_mv_uid, current_prop_relation,
                                  current_prop_func, curPropDict),
                        Rows[ridx])
       IN /\ person' = r.person
          /\ last_mv_uid' = r.loop.last_mv_uid
          /\ current_prop_relation' = r.loop.current_prop_relation
          /\ current_prop_func' = r.loop.current_prop_func
          /\ curPropDict' = r.loop.curPropDict
          /\ error' = IF r.status = "ok" THEN error ELSE r.status
          /\ pc' = IF r.status = "ok" THEN "rows" ELSE "failed"
          /\ ridx' = IF r.status = "ok" THEN ridx + 1 ELSE ridx
          /\ out' = IF r.status = "ok" THEN out
                    ELSE out \o output_ntriples(r.person, rand_tag)
    /\ UNCHANGED <<phoneVars, dbVars, pidx>>

\* lines 460-496: one row of the query
ProcessRow ==
    /\ pc = "rows"
    /\ ridx <= Len(Rows)
    /\ LET r == RowStep(person,
                        LoopState(last_mv_uid, current_prop_relation,
                                  current_prop_func, curPropDict),
                        Rows[ridx])
       IN /\ person' = r.person
          /\ last_mv_uid' = r.loop.last_mv_uid
          /\ current_prop_relation' = r.loop.current_prop_relation
          /\ current_prop_func' = r.loop.current_prop_func
          /\ curPropDict' = r.loop.curPropDict
          /\ error' = IF r.status = "ok" THEN error ELSE r.status
          /\ pc' = IF r.status = "ok" THEN "rows" ELSE "failed"
          /\ ridx' = IF r.status = "ok" THEN ridx + 1 ELSE ridx
    /\ UNCHANGED <<phoneVars, dbVars, pidx, out>>

\* lines 351-353: after the last row, the formatted name and the output
OutputPerson ==
    /\ pc = "rows"
    /\ ridx > Len(Rows)
    /\ LET p == [person EXCEPT !.values = generate_formatted_name(person.values)]
       IN /\ person' = p
          /\ out' = out \o output_ntriples(p, rand_tag)
    /\ pidx' = pidx + 1
    /\ pc' = "scan"
    /\ UNCHANGED <<phoneVars, dbVars, error, ridx, loopVars>>

\* the scan of ABPerson is over
Finish ==
    /\ pc = "scan"
    /\ pidx > Len(ABPerson)
    /\ pc' = "done"
    /\ UNCHANGED <<phoneVars, dbVars, error, pidx, ridx, person, loopVars, out>>

Next == NextPerson \/ ProcessRow \/ OutputPerson \/ Finish

Spec == Init /\ [][Next]_vars

-----------------------------------------------------------------------------
(* Properties of the reconstruction and the output *)

HasPerson == person.id \in DOMAIN ABMultiValue
\* the person's multi-values have been read to the end and written
Written == HasPerson /\ pc \in {"scan", "done"}
MVs == {ABMultiValue[person.id][i] : i \in 1..Len(ABMultiValue[person.id])}
StartsGroup(i) == i = 1 \/ Rows[i - 1].mvid # Rows[i].mvid
GroupIds == {person.multivalues[i][1][1] : i \in 1..Len(person.multivalues)}
GroupsOf(uid) ==
    {i \in 1..Len(person.multivalues) : person.multivalues[i][1][1] = uid}
PersonBnode == person_bnode_of(rand_tag, person.id)
XProp(code) == "abp:x-prop_" \o ToString(code)

\* C4: a row that starts a group with a property type the table does not
\* have does not fail the run; once it is processed the person has a group
\* with relation abp:x-prop_<code>, and the output has a triple with that
\* predicate.
C4_UnknownTypeFallback ==
    HasPerson =>
    \A i \in 1..Len(Rows) :
        (StartsGroup(i) /\ Rows[i].mvtype \notin DOMAIN prop_type_map) =>
            /\ ~(pc = "failed" /\ ridx = i /\ error = "ValueError")
            /\ (i < ridx) =>
                 <<Rows[i].mvid, XProp(Rows[i].mvtype)>> \in Keys(person.multivalues)
            /\ Written =>
                 \E j \in 1..Len(out) : out[j][2] = qname_to_uri(XProp(Rows[i].mvtype))

\* C5: with the rows of a group id contiguous, the person holds exactly one
\* group per distinct group id of the rows processed: rows with the group id
\* of the row before go to the same group, a row with another group id
\* starts a new group whatever its relation.  A run that stops at a row has
\* the groups of the rows before it and at most the group of that row.
C5_OneGroupPerGroupId ==
    HasPerson =>
    LET seen == {Rows[i].mvid : i \in 1..(ridx - 1)}
    IN /\ Len(person.multivalues) = Cardinality(GroupIds)
       /\ pc # "failed" => GroupIds = seen
       /\ pc = "failed" =>
            seen \subseteq GroupIds /\ GroupIds \subseteq seen \cup {Rows[ridx].mvid}
       /\ (pc = "rows" /\ ridx > 1) =>
            /\ last_mv_uid = {Rows[ridx - 1].mvid}
            /\ curPropDict \subseteq Keys(person.multivalues)
            /\ \E k \in curPropDict : k[1] = Rows[ridx - 1].mvid

C5_Witness ==
    /\ Written
    /\ Len(Rows) = 3
    /\ Len(person.multivalues) = 2
    /\ person.multivalues[1][1][2] = person.multivalues[2][1][2]

\* the keys a row supplies: vcard:hasValue with a direct value, the predicate
\* of the sub-entry key with a sub-entry value; the label of a multi-value
\* supplies vcard:category
RowKeys(row) ==
    IF Truthy(row.mval) THEN {"vcard:hasValue"}
    ELSE IF Truthy(row.mv_subval) /\ TruthyInt(row.mve_key)
         THEN {_get_multi_value_entry_qname(row.mve_key[1])} \ {""}
         ELSE {}
ValueKeys(mv) == UNION {RowKeys(RowsOf(mv)[i]) : i \in 1..Len(RowsOf(mv))}
SuppliedKeys(mv) ==
    (IF Truthy(mv.label) THEN {"vcard:category"} ELSE {}) \cup ValueKeys(mv)

\* C6: once a person is written, the output has for each of its groups
\* exactly one triple that links the person's blank node to the group's, with
\* the relation of the group's property type, and exactly one triple with
\* the group's blank node as subject for each distinct key its rows supply,
\* and no other.
C6_OneStatementPerKey ==
    Written =>
    \A mv \in MVs :
        LET gb == mvbnode_of(PersonBnode, mv.UID)
            links == {i \in 1..Len(out) : out[i][1] = PersonBnode /\ out[i][3] = gb}
            props == {i \in 1..Len(out) : out[i][1] = gb}
        IN /\ Cardinality(links) = 1
           /\ \A i \in links : out[i][2] = qname_to_uri(prop_type_map[mv.property][1])
           /\ \A k \in SuppliedKeys(mv) :
                Cardinality({i \in props : out[i][2] = qname_to_uri(k)}) = 1
           /\ \A i \in props :
                \E k \in SuppliedKeys(mv) : out[i][2] = qname_to_uri(k)

C6_Witness ==
    /\ Written
    /\ \E mv \in MVs :
        /\ mv.entries = <<Street, Street2>>
        /\ \E i \in 1..Len(out) :
            out[i] = <<mvbnode_of(PersonBnode, mv.UID),
                       "<http://www.w3.org/2006/vcard/ns#street-address>",
                       "\"2 Side St\"">>

\* the row at which the run stopped has no value, and its group a relation
StoppedAtNoValue ==
    /\ HasPerson
    /\ pc = "failed"
    /\ ~ValuePresent(Rows[ridx])
    /\ StartsGroup(ridx) => Rows[ridx].mvtype \in DOMAIN prop_type_map

\* C7 as stated: the run fails at a row with no value, and nothing is
\* recorded for the row.
C7_NothingRecorded ==
    StoppedAtNoValue =>
        /\ error = "AssertionError"
        /\ StartsGroup(ridx) =>
             \A i \in GroupsOf(Rows[ridx].mvid) : person.multivalues[i][2] = <<>>

\* C7: a row with no value, in a group with a relation, is never passed: the
\* run fails at it with an assertion failure, and the handler is not called,
\* so no value is recorded for it.  What the row has left behind is the new
\* group, if it starts one, holding the category of the row's label and
\* nothing else.
C7_FailsAtRowWithoutValue ==
    HasPerson =>
    \A i \in 1..Len(Rows) :
        ( /\ ~ValuePresent(Rows[i])
          /\ \A j \in 1..i : StartsGroup(j) => Rows[j].mvtype \in DOMAIN prop_type_map )
        => /\ ridx <= i
           /\ pc \in {"rows", "failed"}
           /\ (pc = "failed" /\ ridx = i) =>
                /\ error = "AssertionError"
                /\ last_mv_uid # {Rows[i].mvid} \/ ~StartsGroup(i)
                /\ StartsGroup(i) =>
                     \A g \in GroupsOf(Rows[i].mvid) :
                        Keys(person.multivalues[g][2]) =
                            IF Truthy(Rows[i].mvlabel2) THEN {"vcard:category"} ELSE {}
                /\ ~StartsGroup(i) =>
                     \A g \in GroupsOf(Rows[i].mvid) :
                        Keys(person.multivalues[g][2]) =
                            UNION {RowKeys(Rows[j]) : j \in {j \in 1..(i - 1) :
                                                        Rows[j].mvid = Rows[i].mvid}}
                            \cup (IF Truthy(Rows[i].mvlabel2)
                                  THEN {"vcard:category"} ELSE {})

C7_Witness ==
    /\ StoppedAtNoValue
    /\ error = "AssertionError"
    /\ StartsGroup(ridx)
    /\ \E i \in GroupsOf(Rows[ridx].mvid) :
        person.multivalues[i][2] = << <<"vcard:category", "\"Mobile\"">> >>

\* C8: a telephone value that normalize_phone_number rejects (None) leads to
\* no vcard:hasValue triple built from the None.
C8_NoFailureMarkerEmitted ==
    \A i \in 1..Len(out) :
        ~( /\ out[i][2] = qname_to_uri("vcard:hasValue")
           /\ out[i][3] = "<tel:" \o Format(None) \o ">" )

\* the wrapper _$!<...>!$_ taken off a label that has it
Unwrapped(l) ==
    IF StartsWith(l, "_$!<") /\ EndsWith(l, ">!$_") /\ Len(l) >= 8
    THEN SubSeq(l, 5, Len(l) - 4) ELSE l
TableLabels == {"Mobile", "WorkFAX", "Home", "Pager"}

\* C9 as stated: the label of a group's first row is unwrapped exactly when
\* it has the wrapper and goes through the label table: only a label the
\* table does not have is stored as just a literal category tag.
C9_LabelThroughTable ==
    Written =>
    \A mv \in MVs : \A g \in GroupsOf(mv.UID) :
        Truthy(mv.label) =>
            LET d == person.multivalues[g][2]
                tag == "\"" \o Unwrapped(mv.label[1]) \o "\""
                tagged == "vcard:category" \in Keys(d) /\ Get(d, "vcard:category") = tag
            IN IF Unwrapped(mv.label[1]) \in TableLabels THEN ~tagged ELSE tagged

\* what is stored under vcard:category for the labels of the databases
StoredCategory ==
    [l \in {"_$!<Mobile>!$_", "_$!<WorkFAX>!$_", "_$!<Home>!$_", "_$!<Pager>!$_",
            "_$!<Work>!$_", "iPhone", "_$!<>!$_", "_$!<Other"} |->
        CASE l = "_$!<Mobile>!$_" -> "\"Mobile\""
          [] l = "_$!<WorkFAX>!$_" -> "\"WorkFAX\""
          [] l = "_$!<Home>!$_" -> "\"Home\""
          [] l = "_$!<Pager>!$_" -> "\"Pager\""
          [] l = "_$!<Work>!$_" -> "\"Work\""
          [] l = "iPhone" -> "\"iPhone\""
          [] l = "_$!<>!$_" -> "\"_$!<>!$_\""
          [] l = "_$!<Other" -> "\"O\""]

\* C9: the label of a group's first row loses its first four and last four
\* characters when it is longer than 8 characters and starts with _$!<, and
\* is then stored, quoted, as the group's vcard:category, whatever the label:
\* Mobile, WorkFAX, Home and Pager are stored as category tags like any
\* other label, and the group holds nothing else that comes from the label.
\* A group whose first row has no label has no vcard:category.
C9_LabelStoredAsCategory ==
    HasPerson =>
    \A mv \in MVs : \A g \in GroupsOf(mv.UID) :
        LET d == person.multivalues[g][2]
        IN /\ Truthy(mv.label) =>
                /\ "vcard:category" \in Keys(d)
                /\ Get(d, "vcard:category") = StoredCategory[mv.label[1]]
           /\ ~Truthy(mv.label) => "vcard:category" \notin Keys(d)
           /\ Keys(d) \subseteq {"vcard:category"} \cup ValueKeys(mv)

C9_Witness ==
    /\ Written
    /\ \E mv \in MVs : \E g \in GroupsOf(mv.UID) :
        /\ mv.label = Some("_$!<Mobile>!$_")
        /\ person.multivalues[g][2] =
             << <<"vcard:category", "\"Mobile\"">>, <<"vcard:hasValue", "<tel:5551234>">> >>

-----------------------------------------------------------------------------
(* Inputs of the phone number checks *)

MaxHead == 2
MaxTail == 11

HeadChars == {"0", "1", "8", "+", "*", "a"}

Leads ==
    { "", "0011", "000", "001",
      "010", "011", "00", "+",
      "TEL:", "06", "#", "(0) " }

Heads == {Join(h) : h \in UNION {[1..n -> HeadChars] : n \in 0..MaxHead}}

TailPattern == "5550100"
TailDigits(n) ==
    Join([i \in 1..n |-> CharAt(TailPattern, ((i - 1) % Len(TailPattern)) + 1)])

Examples ==
    { "+1 (415) 555-0100",
      "*67",
      "555-1234",
      "555-CALL",
      "5550100" }

PhoneInputs ==
    {l \o h \o TailDigits(n) : l \in Leads, h \in Heads, n \in 0..MaxTail} \cup Examples

CountryCodes ==
    { "", "1", "7", "36", "45", "44" }

-----------------------------------------------------------------------------
(* Calls of the two implementations *)

PhoneInit ==
    /\ PhoneIdle
    /\ ABPerson = <<>>
    /\ ABMultiValue = <<>>
    /\ rand_tag = ""
    /\ RunStart

CallUtils ==
    /\ impl = "none"
    /\ \E n \in PhoneInputs, c \in CountryCodes, v \in BOOLEAN :
        /\ phoneNo' = n
        /\ countryCallingCode' = c
        /\ validateDigitsOnly' = v
        /\ impl' = "utils"
        /\ result' = PNU_normalize_phone_number(n, c, v)
    /\ UNCHANGED <<dbVars, runVars>>

CallConverter ==
    /\ impl = "none"
    /\ \E n \in PhoneInputs, c \in CountryCodes :
        /\ phoneNo' = n
        /\ countryCallingCode' = c
        /\ validateDigitsOnly' = TRUE
        /\ impl' = "converter"
        /\ result' = normalize_phone_number(n, c)
    /\ UNCHANGED <<dbVars, runVars>>

PhoneNext == CallUtils \/ CallConverter

PhoneSpec == PhoneInit /\ [][PhoneNext]_vars

-----------------------------------------------------------------------------
(* Properties of normalize_phone_number *)

Called == impl # "none"
Cleaned == clean(phoneNo)
Special == isSpecial_(Cleaned)
HasEscape == \E i \in 1..Len(calling_prefixes) : StartsWith(Cleaned, calling_prefixes[i])
FirstEscape ==
    calling_prefixes[CHOOSE i \in 1..Len(calling_prefixes) :
        /\ StartsWith(Cleaned, calling_prefixes[i])
        /\ \A j \in 1..(i - 1) : ~StartsWith(Cleaned, calling_prefixes[j])]
IsSuffix(s, t) == EndsWith(t, s)

Plus1415 ==
    "+1 (415) 555-0100"
Star67 == "*67"

\* C1: a local number (all digits, no escape sequence, fewer than 11
\* characters, not special) with a country calling code c comes back as '+',
\* c, and the number with c's trunk prefix removed.
C1_LocalGetsCountryCode ==
    ( /\ Called
      /\ countryCallingCode # ""
      /\ IsDigit(Cleaned)
      /\ ~HasEscape
      /\ Len(Cleaned) < 11
      /\ ~Special )
    => LET trunk == get_local_trunk_prefix_for_country_code(countryCallingCode)
           national == IF StartsWith(Cleaned, trunk)
                       THEN Drop(Cleaned, Len(trunk)) ELSE Cleaned
       IN result = Text("+" \o countryCallingCode \o national)

\* C2: in both implementations exactly the first listed escape sequence the
\* cleaned number starts with is removed, and what follows it is kept.
C2_OneEscapeStripped ==
    (Called /\ HasEscape /\ ~result.none)
    => LET rest == Drop(Cleaned, Len(FirstEscape))
       IN result.str = IF Special THEN rest ELSE "+" \o rest

C10_NeverTwoPlus ==
    (Called /\ StartsWith(Cleaned, "+") /\ ~result.none)
    => ~StartsWith(result.str, "++")

\* C10: a cleaned input that begins with '+' has exactly that one '+'
\* consumed as the escape sequence: a special number comes back without it,
\* any other number gets one '+' put back and so comes back as the cleaned
\* input itself; the result begins with "++" only when the cleaned input
\* does.  "+1 (415) 555-0100" gives "+14155550100".
C10_PlusConsumedOnce ==
    (Called /\ StartsWith(Cleaned, "+") /\ ~result.none)
    => /\ result.str = IF Special THEN Drop(Cleaned, 1) ELSE Cleaned
       /\ StartsWith(result.str, "++") => StartsWith(Cleaned, "++")
       /\ phoneNo = Plus1415 =>
            result.str = "+14155550100"

C10_Witness ==
    /\ Called
    /\ phoneNo = Plus1415
    /\ result = Text("+14155550100")

-----------------------------------------------------------------------------
(* Runs of process_ab_records over databases of several persons *)

MaxPersons == 2

\* the ROWIDs of table ABPerson and the UIDs of table ABMultiValue
ScanIds == {1, 11, 112}
ScanUIDs == {2, 12}

ScanPersonRow(id) ==
    [ROWID |-> Some(id), First |-> Some("Ann"), Organization |-> NULL,
     Kind |-> Some(0)]

\* the rows of ABPerson in scan order: ROWID is the key of the table
ScanPersons ==
    {s \in UNION {[1..n -> ScanIds] : n \in 0..MaxPersons} :
        \A i, j \in DOMAIN s : i # j => s[i] # s[j]}

ScanCatalogue ==
    { MV(5, NULL, Some("_$!<Home>!$_"), <<Street, City>>),
      \* _get_mv_property_type_qname has no pair for it: ValueError
      MV(99, Some("x"), NULL, <<>>),
      \* no value: the assertion fails after the group is registered
      MV(3, NULL, Some("_$!<Mobile>!$_"), <<>>) }

\* ORDER BY 1 of the query: the multi-values come in the order of their UIDs
RECURSIVE Ascending(_)
Ascending(S) ==
    IF S = {} THEN <<>>
    ELSE LET m == CHOOSE x \in S : \A y \in S : x <= y
         IN <<m>> \o Ascending(S \ {m})

\* the multi-values of one person, in the order of the query
ScanMVLists ==
    UNION { { [i \in 1..Len(Ascending(U)) |->
                LET uid == Ascending(U)[i]
                IN [UID |-> uid, property |-> f[uid].property,
                    value |-> f[uid].value, label |-> f[uid].label,
                    entries |-> f[uid].entries]] :
              f \in [U -> ScanCatalogue] } :
            U \in SUBSET ScanUIDs }

\* LEFT JOIN ABMultiValueEntry mve ON mve.parent_id = mv.UID: the entries are
\* found by the UID alone, so multi-values of different persons that have the
\* same UID have the same entries
EntriesByParent(mvs) ==
    \A a, b \in DOMAIN mvs :
        \A i \in DOMAIN mvs[a], j \in DOMAIN mvs[b] :
            mvs[a][i].UID = mvs[b][j].UID => mvs[a][i].entries = mvs[b][j].entries

ScanInit ==
    /\ PhoneIdle
    /\ rand_tag \in RandTags
    /\ \E s \in ScanPersons :
        /\ ABPerson = [i \in 1..Len(s) |-> ScanPersonRow(s[i])]
        /\ ABMultiValue \in [{s[i] : i \in 1..Len(s)} -> ScanMVLists]
    /\ EntriesByParent(ABMultiValue)
    /\ RunStart

ScanSpec == ScanInit /\ [][Next]_vars

-----------------------------------------------------------------------------
(* Properties of the output of a scan *)

\* _process_person_multi_values as a whole: the loop over the rows, left at
\* the first row that raises
RECURSIVE RunRows(_, _, _, _)
RunRows(p, l, rows, i) ==
    IF i > Len(rows) THEN StepResult("ok", p, l)
    ELSE LET r == RowStep(p, l, rows[i])
         IN IF r.status # "ok" THEN r
            ELSE RunRows(r.person, r.loop, rows, i + 1)

_process_person_multi_values(p, rows) ==
    RunRows(p, LoopState({}, "", "", {}), rows, 1)

\* the body of the loop of process_ab_records for the i-th row of ABPerson,
\* up to generate_formatted_name
Reconstruction(i) ==
    LET row == ABPerson[i]
        id == row.ROWID[1]
        p == [NewPerson(id) EXCEPT !.values = ProcessColumns(row, 1, <<>>)]
        r == _process_person_multi_values(p, JoinRows(ABMultiValue[id]))
    IN [status |-> r.status,
        person |-> [r.person EXCEPT
                        !.values = generate_formatted_name(r.person.values)]]

Reconstructs(i) == Reconstruction(i).status = "ok"

\* the complete statement set of the i-th entity
CompleteStatements(i) == output_ntriples(Reconstruction(i).person, rand_tag)

RECURSIVE PrefixStatements(_)
PrefixStatements(k) ==
    IF k = 0 THEN <<>> ELSE PrefixStatements(k - 1) \o CompleteStatements(k)

IsPrefix(s, t) == Len(s) <= Len(t) /\ SubSeq(t, 1, Len(s)) = s

EntityIdent(i) == person_bnode_of(rand_tag, ABPerson[i].ROWID[1])
GroupIdent(i, uid) == mvbnode_of(EntityIdent(i), uid)
UIDsOf(i) ==
    LET mvs == ABMultiValue[ABPerson[i].ROWID[1]]
    IN {mvs[k].UID : k \in 1..Len(mvs)}
Subjects == {out[k][1] : k \in 1..Len(out)}
Objects == {out[k][3] : k \in 1..Len(out)}

\* the entities whose loop body has ended: pidx moves on with the output
EntitiesWritten == 1..(pidx - 1)

C11_PrefixOfEntities ==
    /\ pidx - 1 <= Len(ABPerson)
    /\ \A i \in EntitiesWritten : Reconstructs(i)
    /\ out = PrefixStatements(pidx - 1)
    /\ pc = "done" => pidx - 1 = Len(ABPerson)
    /\ pc = "failed" =>
        /\ ~Reconstructs(pidx)
        /\ EntityIdent(pidx) \notin Subjects
        /\ \A u \in UIDsOf(pidx) :
            GroupIdent(pidx, u) \notin Subjects \cup Objects

GroupsWritten(i) ==
    LET mv == Reconstruction(i).person.multivalues
    IN {mv[k][1][1] : k \in {n \in 1..Len(mv) : mv[n][2] # <<>>}}

IdentsWritten ==
    {a \in (1..Len(ABPerson)) \X ScanUIDs :
        a[1] \in EntitiesWritten /\ a[2] \in GroupsWritten(a[1])}

\* C12: within a run the identifiers output_ntriples has written are
\* injective: entities with different ids have different entity identifiers,
\* different (entity id, group id) pairs have different group identifiers,
\* and no group identifier is an entity identifier.  Each of them is in the
\* output: the entity identifier as a subject, the group identifier as the
\* object of a statement of its entity.
C12_IdentifiersInjective ==
    /\ \A i, j \in EntitiesWritten :
        ABPerson[i].ROWID # ABPerson[j].ROWID => EntityIdent(i) # EntityIdent(j)
    /\ \A a, b \in IdentsWritten :
        <<ABPerson[a[1]].ROWID, a[2]>> # <<ABPerson[b[1]].ROWID, b[2]>>
            => GroupIdent(a[1], a[2]) # GroupIdent(b[1], b[2])
    /\ \A a \in IdentsWritten : \A j \in EntitiesWritten :
        GroupIdent(a[1], a[2]) # EntityIdent(j)
    /\ \A i \in EntitiesWritten : EntityIdent(i) \in Subjects
    /\ \A a \in IdentsWritten :
        \E k \in 1..Len(out) :
            out[k][1] = EntityIdent(a[1]) /\ out[k][3] = GroupIdent(a[1], a[2])

\* two entities written, with a group of the same UID each
C12_Witness ==
    /\ pc = "done"
    /\ Len(ABPerson) = 2
    /\ \E u \in ScanUIDs : {<<1, u>>, <<2, u>>} \subseteq IdentsWritten
    /\ \E k \in 1..Len(out) : out[k][3] = GroupIdent(2, 12)

====
